---- MODULE Spec2Model ----
(***************************************************************************)
(* Listeners of the experimaestro-ir learner (xpmir/letor/learner.py):     *)
(* ValidationListener, NegativeSamplerListener, FaissBuildListener, driven *)
(* by the epoch loop of the Learner.  Metric values are integers standing  *)
(* for the floats returned by evaluate(); a model snapshot is identified   *)
(* by the epoch at which it was copied (0 = no snapshot).                  *)
(*                                                                         *)
(* Samplers (xpmir/letor/samplers.py) and trainers are explored by         *)
(* specifications of their own: SpecIter (serializable iterators),         *)
(* SpecPass (passes over the topics and the first draw), SpecBatch         *)
(* (in-batch negatives), SpecList (list of pairwise samplers), SpecTrain   *)
(* (batches of a trainer), SpecCold (listeners with a damaged info.json),  *)
(* SpecCrash (a validation pass interrupted between its writes), SpecPool  *)
(* (the pool of a model-based sampler), SpecTeacher (teacher scoring of    *)
(* the triplets and its export).                                           *)
(* Each specification leaves the variables of the other components at      *)
(* their initial values.                                                   *)
(***************************************************************************)
EXTENDS Integers, Sequences, FiniteSets, TLC

\* ---------------------------------------------------------------- bounds
MaxEpoch == 4        \* max_epochs of the Learner
MaxValue == 2        \* metric means are drawn from 1..MaxValue
MaxInterval == 2     \* validation / sampling / indexing intervals: 1..MaxInterval
MaxEarlyStop == 2    \* early_stop is drawn from 0..MaxEarlyStop

\* -------------------------------------------------- defaults of the Params
DefaultWarmup == -1
DefaultValidationInterval == 1
DefaultEarlyStop == 0
DefaultSamplingInterval == 128
DefaultIndexingInterval == 128

Metrics == {"map", "ndcg"}
Values == 1..MaxValue
Intervals == 1..MaxInterval
Warmups == {DefaultWarmup, 2}

\* The listener lists the Learner is run with: each listener alone, the two
\* listeners without a vote together, and the three listeners together.
ListenerLists == {<<"validation">>, <<"negative", "faiss">>,
                  <<"validation", "negative", "faiss">>}

VARIABLES
    \* ---- configuration (experimaestro Params)
    listeners,             \* Learner.listeners, in calling order
    metrics,               \* metric -> keep the best checkpoint?
    warmup, validation_interval, early_stop, store_last_checkpoint,
    sampling_interval, indexing_interval,
    \* ---- Learner
    pc,                    \* position of the learner
    epoch,                 \* state.epoch = context.epoch
    li,                    \* index of the next listener to call
    votes,                 \* the votes of the listeners for this epoch
    \* ---- ValidationListener
    top,                   \* self.top: metric -> [value, epoch]
    info,                  \* the info.json file: [exists, text]
    bestDir,               \* bestpath/<metric>: epoch of the stored model
    lastDir,               \* last_checkpoint_path: epoch of the stored model
    vlLast,                \* what the last ValidationListener call did
    seen,                  \* history: metric -> value -> first epoch observed
    topU, vlLastU,         \* the listener of the run that is never interrupted
    stoppedAt,             \* history: epoch of the first STOP vote (0: none)
    \* ---- NegativeSamplerListener and the sampler of the trainer
    change, sampler_index,
    trainIter,             \* current index of the iterator the trainer consumes
    nslLast,               \* what the last NegativeSamplerListener call did
    switches,              \* set_current calls over the whole run
    justResumed,           \* resumed, and no epoch completed since
    \* ---- FaissBuildListener
    indexFile,             \* epoch at which faiss.dat was last rebuilt
    \* ---- serializable iterators of the samplers
    itKind,                \* the sampler class the iterator comes from
    itSeed,                \* the seed of the experiment
    itU, outU,             \* iterator never interrupted, and its records
    itI, outI,             \* iterator saved and restored, and its records
    itSaved,               \* the last state_dict() written to a checkpoint
    restoredAt,            \* records drawn before the last restore (-1: none)
    \* ---- the batches of a trainer
    trainer,               \* the trainer class
    steps_per_epoch,       \* batches of one epoch
    tpc,                   \* position of the training loop
    tepoch, tbatch,        \* epochs completed, batches completed in the epoch
    drawn,                 \* batches drawn from the sampler
    losses,                \* batches for which a loss was computed
    lastScores,            \* the scores of the last batch drawn
    listenerCalls,         \* epochs at whose end the listeners were invoked
    checkpoints,           \* checkpoints written
    \* ---- a pass of a model-based sampler over the topics
    passMode,              \* per-query, batched, or hard-negative extraction
    queries,               \* the topics, with their judgements and retrieval
    qix,                   \* the queries handled so far
    skipped,               \* the counter of the pass
    yielded,               \* what the pass has yielded or written
    outcomes,              \* per query handled: "skip", "yield" or "error"
    ppc,                   \* "running", "done", "failed", "drawn", "draw_failed"
    finalLog,              \* the arguments of the final log line, or <<>>
    hnFile,                \* the file written by the hard-negative extraction
    \* ---- the iterator of PairwiseInBatchNegativesSampler
    batch_size,            \* the argument of batchwise_iter
    relevances,            \* the matrix computed when the generator starts
    batch,                 \* the last batch yielded
    nbatch,                \* batches yielded
    \* ---- PairwiseListSamplers and the iterator it returns
    rstates,               \* the RandomState objects: object -> state
    sampler_random,        \* sub-sampler -> the object that is its self.random
    current,               \* the current index of the iterator
    listOut,               \* the records drawn: (sub-sampler, record)
    \* ---- the pool of a model-based sampler and one iterator over it
    smpKind,               \* "pointwise" or "pairwise"
    require_initialization,
    pool,                  \* size of the pool attribute (-1: never assigned)
    npos,                  \* the size held by the running generator (-1: not started)
    spc,                   \* "new", "ready", "init_failed", "draw_failed"
    updated,               \* update() has been called
    lastDraw,              \* the last draw of the iterator
    ndraws,                \* draws so far
    \* ---- the teacher scoring of the distillation samples
    source,                \* the triplets of the source sampler
    teacher_batch_size,    \* batch_size of the task
    tripletFile,           \* the file written by execute
    scored,                \* (source position, triplet) scored so far
    teacherBatches         \* batches taken from iter_batches

cfgvars == <<listeners, metrics, warmup, validation_interval, early_stop,
             store_last_checkpoint, sampling_interval, indexing_interval>>
vlvars == <<top, info, bestDir, lastDir, vlLast, seen, topU, vlLastU, stoppedAt>>
nslvars == <<change, sampler_index, trainIter, nslLast, switches>>
itervars == <<itKind, itSeed, itU, outU, itI, outI, itSaved, restoredAt>>
trainvars == <<trainer, steps_per_epoch, tpc, tepoch, tbatch, drawn, losses,
               lastScores, listenerCalls, checkpoints>>
passvars == <<passMode, queries, qix, skipped, yielded, outcomes, ppc, finalLog,
              hnFile>>
batchvars == <<batch_size, relevances, batch, nbatch>>
listvars == <<rstates, sampler_random, current, listOut>>
poolvars == <<smpKind, require_initialization, pool, npos, spc, updated, lastDraw,
              ndraws>>
teachvars == <<source, teacher_batch_size, tripletFile, scored, teacherBatches>>
smpvars == <<itervars, trainvars, passvars, batchvars, listvars, poolvars, teachvars>>
lrnvars == <<cfgvars, pc, epoch, li, votes, vlvars, nslvars, justResumed, indexFile>>
vars == <<lrnvars, smpvars>>
\* what each of the other specifications leaves alone
besideIter == <<lrnvars, trainvars, passvars, batchvars, listvars, poolvars, teachvars>>
besideTrain == <<lrnvars, itervars, passvars, batchvars, listvars, poolvars, teachvars>>
besidePass == <<lrnvars, itervars, trainvars, batchvars, listvars, poolvars, teachvars>>
besideBatch == <<lrnvars, trainvars, passvars, listvars, poolvars, teachvars,
                 itKind, itSeed, itU, outU, outI, itSaved, restoredAt>>
besideList == <<lrnvars, itervars, trainvars, passvars, batchvars, poolvars, teachvars>>
besidePool == <<lrnvars, itervars, trainvars, passvars, batchvars, listvars, teachvars>>
besideTeacher == <<lrnvars, itervars, trainvars, passvars, batchvars, listvars, poolvars>>

Has(name) == \E i \in DOMAIN listeners : listeners[i] = name
ListenerAt(i) == IF i \in DOMAIN listeners THEN listeners[i] ELSE "none"
NoVotes == [i \in DOMAIN listeners |-> "NONE"]

\* the means evaluate() can return: when the three listeners run together
\* the validation set gives one value only
MeansDomain == IF Len(listeners) > 1 THEN {1} ELSE Values

\* ------------------------------------------------------- helper operators
SetMax(S) == CHOOSE x \in S : \A y \in S : y <= x

EmptyTop == [m \in {} |-> [value |-> 0, epoch |-> 0]]

\* json.dump(self.top, fp): one (key, value, epoch) entry per metric
JsonDump(t) == {<<m, t[m].value, t[m].epoch>> : m \in DOMAIN t}

\* json.load(fp)
JsonLoad(text) ==
    [m \in {x[1] : x \in text} |->
        LET x == CHOOSE y \in text : y[1] = m
        IN [value |-> x[2], epoch |-> x[3]]]

\* info.json: fault tells why reading it raises ("none": it reads well)
Faults == {"unreadable", "unparseable"}
NoInfo == [exists |-> FALSE, text |-> {}, fault |-> "none"]

\* ------------------------------------------------- ValidationListener
\* __validate__: the assertion on early_stop
\* the operands of the assertion exchanged
VL_validate_swapped(es, vi) == es = 0 \/ vi % es = 0
VL_validate(es, vi) == es % vi = 0

\* initialize: self.top is read from info.json, {} on any exception
\* a listener that never reads info.json
VL_initialize_cold(f) == EmptyTop
\* a listener that takes whatever the file holds
VL_initialize_trusting(f) == IF f.exists THEN JsonLoad(f.text) ELSE EmptyTop
VL_initialize(f) ==
    IF f.exists /\ f.fault = "none" THEN JsonLoad(f.text) ELSE EmptyTop

\* should_stop(epoch): "STOP", "DONT_STOP", or "ERROR" when max() is given
\* an empty sequence (ValueError).  `ep or self.context.epoch`: 0 is falsy.
KeptEpochs(t) == {t[m].epoch : m \in {k \in DOMAIN t : metrics[k]}}

should_stop(t, ep, ctx) ==
    IF early_stop > 0 /\ DOMAIN t # {}
    THEN IF KeptEpochs(t) = {} THEN "ERROR"
         ELSE IF (IF ep # 0 THEN ep ELSE ctx) - SetMax(KeptEpochs(t)) >= early_stop
              THEN "STOP" ELSE "DONT_STOP"
    ELSE "DONT_STOP"

\* >= in place of >
ImprovedOrEqual(t, m, v) == m \notin DOMAIN t \/ v >= t[m].value
\* the test at line 151: no record yet, or a strictly greater value
Improved(t, m, v) == m \notin DOMAIN t \/ v > t[m].value

\* update_metrics(metrics): what is added under <id>/final/<metric>, nothing
\* for an empty table, KeyError when a configured metric has no entry
update_metrics(t) ==
    IF DOMAIN t = {} THEN [m \in {} |-> 0]
    ELSE IF Metrics \subseteq DOMAIN t THEN [m \in Metrics |-> t[m].value]
    ELSE [m \in {"KeyError"} |-> 0]

\* a table that records the kept metrics only
UpdateTopKept(t, ep, means) ==
    IF ep >= warmup
    THEN [m \in {k \in Metrics : metrics[k]} |->
            IF Improved(t, m, means[m])
            THEN [value |-> means[m], epoch |-> ep]
            ELSE t[m]]
    ELSE t
\* the loop over self.metrics.items(): the new self.top
UpdateTop(t, ep, means) ==
    IF ep >= warmup
    THEN [m \in Metrics |->
            IF Improved(t, m, means[m])
            THEN [value |-> means[m], epoch |-> ep]
            ELSE t[m]]
    ELSE t

\* the metrics whose bestpath/<metric> is overwritten by context.copy
\* the copy made whatever the keep flag
CopiedAll(t, ep, means) ==
    {m \in Metrics : ep >= warmup /\ Improved(t, m, means[m])}
Copied(t, ep, means) ==
    {m \in Metrics : ep >= warmup /\ Improved(t, m, means[m]) /\ metrics[m]}

\* the file rewritten only when a best changed
WriteInfoOnImprovement(f, before, after) ==
    IF after # before
    THEN [exists |-> TRUE, text |-> JsonDump(after), fault |-> "none"] ELSE f
\* lines 167-169: info.json is rewritten with the new self.top
WriteInfo(f, before, after) ==
    [exists |-> TRUE, text |-> JsonDump(after), fault |-> "none"]

NoMeans == [m \in Metrics |-> 0]

\* the last checkpoint copied only when a best checkpoint is
StoreLastOnImprovement(t, ep, means) ==
    store_last_checkpoint /\ Copied(t, ep, means) # {}
\* lines 163-165: the copy to last_checkpoint_path in a validation pass
StoreLast(t, ep, means) == store_last_checkpoint

\* an output for every metric, kept or not
taskoutputs_all ==
    [key \in Metrics \cup (IF store_last_checkpoint THEN {"last_checkpoint"} ELSE {})
        |-> IF key = "last_checkpoint" THEN <<"last_checkpoint">>
            ELSE <<"best", key>>]
\* taskoutputs(learner): the keys and the directory each of them names
taskoutputs ==
    [key \in {m \in Metrics : metrics[m]}
              \cup (IF store_last_checkpoint THEN {"last_checkpoint"} ELSE {})
        |-> IF key = "last_checkpoint" THEN <<"last_checkpoint">>
            ELSE <<"best", key>>]

\* what a call does without evaluating: only the vote
Quiet(t, pre, vote) ==
    [top |-> t, pre |-> pre, vote |-> vote, evaluated |-> FALSE,
     copied |-> {}, last |-> FALSE, dumped |-> FALSE, means |-> NoMeans,
     before |-> t]

\* a call without the check on entry
NoEntryCheck(t, ep) == "DONT_STOP"
\* the check on entry made for the epoch of the call
EntryCheckCurrent(t, ep) == should_stop(t, ep, ep)
\* lines 126-127: self.should_stop(state.epoch - 1)
EntryCheck(t, ep) == should_stop(t, ep - 1, ep)

\* __call__(state) with state.epoch = context.epoch = ep, as a function of
\* self.top and of the means returned by evaluate()
VLCall(t, ep, means) ==
    LET pre == EntryCheck(t, ep) IN
    IF pre # "DONT_STOP" THEN Quiet(t, pre, pre)
    ELSE IF ep % validation_interval = 0
    THEN LET nt == UpdateTop(t, ep, means) IN
         [top |-> nt, pre |-> pre, vote |-> should_stop(nt, 0, ep),
          evaluated |-> TRUE,
          copied |-> Copied(t, ep, means), last |-> StoreLast(t, ep, means),
          dumped |-> TRUE, means |-> means, before |-> t]
    ELSE Quiet(t, pre, should_stop(t, 0, ep))

\* does the call reach evaluate() ?
Evaluates(t, ep) ==
    EntryCheck(t, ep) = "DONT_STOP" /\ ep % validation_interval = 0

NotCalled == [top |-> EmptyTop, pre |-> "NONE", vote |-> "NONE",
              evaluated |-> FALSE,
              copied |-> {}, last |-> FALSE, dumped |-> FALSE,
              means |-> NoMeans, before |-> EmptyTop]

\* the history of observed values (at epochs >= warmup)
Observe(s, ep, means) ==
    IF ep >= warmup
    THEN [m \in Metrics |-> [v \in Values |->
            IF v = means[m] /\ s[m][v] = 0 THEN ep ELSE s[m][v]]]
    ELSE s


\* ------------------------------------------- NegativeSamplerListener
\* PairwiseListSamplers.pairwise_iter(): every call builds a new
\* ListwiseSerializableIterator, whose current index starts at 0
FreshIter == 0

\* ListwiseSerializableIterator.set_current(i) on iterator `it`
set_current(it, i) == i

NoNslCall == [called |-> FALSE, set_current |-> <<>>, update |-> <<>>]

\* __call__(state): [change, sampler_index, set_current calls, update calls]
NSLCall(chg, idx, ep) ==
    IF ep % sampling_interval = 0
    THEN IF chg
         THEN [change |-> FALSE, sampler_index |-> idx + 1,
               set_current |-> <<set_current(FreshIter, idx + 1)>>,
               update |-> <<idx + 1>>]
         ELSE [change |-> FALSE, sampler_index |-> idx,
               set_current |-> <<>>, update |-> <<idx>>]
    ELSE [change |-> chg, sampler_index |-> idx,
          set_current |-> <<>>, update |-> <<>>]

\* ------------------------------------------- serializable iterators
MaxDraws == 4        \* records drawn from one iterator

Kinds == {"model_based", "conversation", "triplet", "dataset_triplet"}
RandomDrawKinds == {"model_based", "conversation"}
SkipAheadKinds == {"triplet", "dataset_triplet"}
Seeds == 0..7

\* np.random.RandomState: 16 states, a congruential generator of full period
RandomState(seed) == (7 * seed + 1) % 16
Advance(s) == (5 * s + 3) % 16
\* random.randint(0, high): the value drawn and the state after the draw
randint(s, high) == [value |-> (Advance(s) \div 2) % high, state |-> Advance(s)]

\* PairwiseModelBasedSampler.topics: (title, positives, negatives)
Topics ==
    << [title |-> "q1", positives |-> <<"d1", "d2">>,
        negatives |-> <<"d3", "d4", "d5">>],
       [title |-> "q2", positives |-> <<"d2">>, negatives |-> <<"d4", "d1">>] >>

\* documents for which document_text returns None
NoText == {"d4"}

\* PairwiseModelBasedSampler.sample: draw until a document has a text
RECURSIVE sample(_, _)
sample(samples, s) ==
    LET r == randint(s, Len(samples))
        docid == samples[r.value + 1]
    IN IF docid \in NoText THEN sample(samples, r.state)
       ELSE [doc |-> docid, state |-> r.state]

\* one turn of the generator of PairwiseModelBasedSampler.pairwise_iter
ModelBasedNext(s) ==
    LET t == randint(s, Len(Topics))
        topic == Topics[t.value + 1]
        p == sample(topic.positives, t.state)
        n == sample(topic.negatives, p.state)
    IN [record |-> <<topic.title, p.doc, n.doc>>, state |-> n.state]

\* DatasetConversationEntrySampler.conversations: nodes, some of which hold a
\* TopicRecord
Conversations ==
    << << [id |-> "t1", topic |-> TRUE], [id |-> "a1", topic |-> FALSE],
          [id |-> "t2", topic |-> TRUE] >>,
       << [id |-> "t3", topic |-> TRUE], [id |-> "a2", topic |-> FALSE],
          [id |-> "t4", topic |-> TRUE], [id |-> "t5", topic |-> TRUE] >> >>

IsTopicRecord(node) == node.topic

\* one turn of the generator of DatasetConversationEntrySampler.__iter__
ConversationNext(s) ==
    LET c == randint(s, Len(Conversations))
        nodes == SelectSeq(Conversations[c.value + 1], IsTopicRecord)
        n == randint(c.state, Len(nodes))
    IN [record |-> <<c.value, nodes[n.value + 1].id>>, state |-> n.state]

\* TrainingTriplets.iter(): (query, positive, negative)
Triplets == << <<"q1", "d1", "d3">>, <<"q1", "d2", "d5">>, <<"q2", "d2", "d1">> >>

\* PairwiseSampleDataset.iter(): the negatives are grouped by algorithm
Samples ==
    << [query |-> "q1", positives |-> <<"d1", "d2">>,
        negatives |-> << <<"d3", "d4">>, <<"d5">> >>],
       [query |-> "q2", positives |-> <<"d2", "d6">>,
        negatives |-> << <<"d1", "d5", "d3">> >>],
       [query |-> "q3", positives |-> <<"d7", "d1", "d2">>,
        negatives |-> << <<"d4", "d5">>, <<"d3", "d6">> >>] >>

\* _Iterator.next of PairwiseDatasetTripletBasedSampler on the sample at
\* position k of the dataset
DatasetNext(k, s) ==
    LET smp == Samples[k + 1]
        p == randint(s, Len(smp.positives))
        g == randint(p.state, Len(smp.negatives))
        negatives == smp.negatives[g.value + 1]
        n == randint(g.state, Len(negatives))
    IN [record |-> <<smp.query, smp.positives[p.value + 1],
                     negatives[n.value + 1]>>,
        state |-> n.state]

\* an iterator: the state of its RandomState and the items it has produced
NewIterator == [random |-> RandomState(itSeed), position |-> 0]

HasNext(kind, it) ==
    CASE kind = "triplet" -> it.position < Len(Triplets)
      [] kind = "dataset_triplet" -> it.position < Len(Samples)
      [] OTHER -> TRUE

\* next(it): the record and the iterator afterwards
Produce(kind, it) ==
    CASE kind = "model_based" ->
            LET r == ModelBasedNext(it.random)
            IN [record |-> r.record, it |-> [it EXCEPT !.random = r.state]]
      [] kind = "conversation" ->
            LET r == ConversationNext(it.random)
            IN [record |-> r.record, it |-> [it EXCEPT !.random = r.state]]
      [] kind = "triplet" ->
            [record |-> Triplets[it.position + 1],
             it |-> [it EXCEPT !.position = @ + 1]]
      [] kind = "dataset_triplet" ->
            LET r == DatasetNext(it.position, it.random)
            IN [record |-> r.record,
                it |-> [random |-> r.state, position |-> it.position + 1]]

NoState == [k \in {} |-> 0]

\* state_dict(): the random state for RandomSerializableIterator, the
\* position for SkippingIterator (the iterator returned at line 468 is the
\* outer SkippingIterator)
state_dict(kind, it) ==
    IF kind \in RandomDrawKinds
    THEN [k \in {"random"} |-> it.random]
    ELSE [k \in {"position"} |-> it.position]

\* a restore that leaves the generator of the new process as seeded
set_state_ignored(it, s) == it
\* RandomState.set_state
set_state(it, s) == [it EXCEPT !.random = s]

\* a restore that does not advance the new iterator
SkipNone(kind, it, k) == it
\* skip-ahead: the new iterator is advanced past the k items already produced
RECURSIVE SkipAhead(_, _, _)
SkipAhead(kind, it, k) ==
    IF k = 0 \/ ~HasNext(kind, it) THEN it
    ELSE SkipAhead(kind, Produce(kind, it).it, k - 1)

\* load_state_dict(state) on a new iterator
load_state_dict(kind, it, state) ==
    IF kind \in RandomDrawKinds
    THEN set_state(it, state["random"])
    ELSE SkipAhead(kind, it, state["position"])

\* ------------------------------------------- in-batch negatives
MaxBatch == 3        \* batch_size is drawn from 1..MaxBatch
MaxBatches == 3      \* batches drawn from one iterator

\* the samplers that can be the base of PairwiseInBatchNegativesSampler
PairwiseKinds == {"model_based", "triplet", "dataset_triplet"}

\* torch.eye(n), torch.zeros(n, m) and torch.cat((a, b), 1)
eye(n) == [i \in 1..n |-> [j \in 1..n |-> IF i = j THEN 1 ELSE 0]]
zeros(n, m) == [i \in 1..n |-> [j \in 1..m |-> 0]]
cat(a, b) == [i \in DOMAIN a |-> a[i] \o b[i]]

\* zip(range(n), pair_iter): n records, fewer when pair_iter is exhausted
RECURSIVE zip(_, _, _)
zip(n, kind, it) ==
    IF n = 0 \/ ~HasNext(kind, it) THEN [records |-> <<>>, it |-> it]
    ELSE LET p == Produce(kind, it)
             r == zip(n - 1, kind, p.it)
         IN [records |-> <<p.record>> \o r.records, it |-> r.it]

NoBatch == [queries |-> <<>>, documents |-> <<>>, relevances |-> <<>>,
            records |-> <<>>]

\* one turn of the loop of iter(pair_iter): the queries, the positives and
\* then the negatives, and the matrix (records: what was pulled)
ProductRecords(records, rel) ==
    [queries |-> [i \in DOMAIN records |-> records[i][1]],
     documents |-> [i \in DOMAIN records |-> records[i][2]]
                   \o [i \in DOMAIN records |-> records[i][3]],
     relevances |-> rel,
     records |-> records]

\* ------------------------------------------- PairwiseListSamplers
SubSamplers == 0..1
Objects == {"random"}

\* PairwiseListSamplers.initialize(random): sampler.initialize(random) for
\* every sub-sampler, and Sampler.initialize keeps the object it is given
ListInitialize(random) == [k \in SubSamplers |-> random]

\* ------------------------------------------- passes over the topics
MaxQueries == 3      \* topics of the dataset

PassModes == {"per_query", "batched", "hard_negative"}

\* a topic: is its qid in the assessments, its judgements (docno, rel) in
\* the order of the qrels, and what the retriever returns for its text
QueryCases ==
    { [qrels |-> FALSE, judgements |-> <<>>, retrieved |-> <<"d1", "d2">>],
      [qrels |-> TRUE, judgements |-> <<>>, retrieved |-> <<"d1", "d2">>],
      [qrels |-> TRUE, judgements |-> << <<"d1", 1>>, <<"d2", 0>>, <<"d3", -1>> >>,
       retrieved |-> <<"d1", "d2", "d4">>],
      [qrels |-> TRUE, judgements |-> << <<"d2", 0>> >>,
       retrieved |-> <<"d2", "d4">>],
      [qrels |-> TRUE, judgements |-> << <<"d5", 2>>, <<"d1", 1>> >>,
       retrieved |-> <<"d1", "d2">>],
      [qrels |-> TRUE, judgements |-> << <<"d5", 1>> >>,
       retrieved |-> <<"d3", "d2">>],
      [qrels |-> TRUE, judgements |-> << <<"d1", 1>> >>, retrieved |-> <<"d1">>] }

\* qassessments.get(docid, 0)
Rel(q, docid) ==
    IF \E i \in DOMAIN q.judgements : q.judgements[i][1] = docid
    THEN (CHOOSE j \in {q.judgements[i] : i \in DOMAIN q.judgements} :
              j[1] = docid)[2]
    ELSE 0

IsRelevant(j) == j[2] > 0

\* lines 163-166: the judged documents with rel > 0, in the order of the qrels
JudgedPositives(q) ==
    LET sel == SelectSeq(q.judgements, IsRelevant)
    IN [i \in DOMAIN sel |-> sel[i][1]]

\* lines 179-186: the retrieved documents whose rel is not > 0
RetrievedNegatives(q) == SelectSeq(q.retrieved, LAMBDA d : ~(Rel(q, d) > 0))

\* lines 575-578: the retrieved documents with rel > 0
RetrievedPositives(q) == SelectSeq(q.retrieved, LAMBDA d : Rel(q, d) > 0)

Skip == [kind |-> "skip", positives |-> <<>>, negatives |-> <<>>]
Raise == [kind |-> "error", positives |-> <<>>, negatives |-> <<>>]
Yield(pos, neg) == [kind |-> "yield", positives |-> pos, negatives |-> neg]

\* the body of the loop of _itertopics for one query
PerQuery(q) ==
    IF ~q.qrels \/ q.judgements = <<>> THEN Skip
    ELSE IF JudgedPositives(q) = <<>> THEN Skip
    ELSE IF RetrievedNegatives(q) = <<>> THEN Raise
    ELSE Yield(JudgedPositives(q), RetrievedNegatives(q))

\* the body of the inner loop of _itertopics_batchwise for one query:
\* assessments.get(qid, None).items() raises when the qid has no qrels
Batchwise(q) ==
    IF ~q.qrels THEN Raise
    ELSE Yield(JudgedPositives(q), RetrievedNegatives(q))

\* the body of the loop of ModelBasedHardNegativeSampler.execute
HardNegative(q) ==
    IF ~q.qrels \/ q.judgements = <<>> THEN Skip
    ELSE IF RetrievedPositives(q) = <<>> THEN Skip
    ELSE IF RetrievedNegatives(q) = <<>> THEN Skip
    ELSE Yield(RetrievedPositives(q), RetrievedNegatives(q))

Handle(mode, q) ==
    CASE mode = "per_query" -> PerQuery(q)
      [] mode = "batched" -> Batchwise(q)
      [] mode = "hard_negative" -> HardNegative(q)

\* ---- the text files of the exports.  A file is the sequence of its lines,
\* a line the sequence of its tab-separated fields, a field the sequence of
\* its space-separated words, and a word the sequence of the strings that
\* were written into it one after the other
Field(str) == << <<str>> >>

\* " ".join(ids)
JoinWords(ids) == [i \in DOMAIN ids |-> <<ids[i]>>]

\* the text of field g written right after the text of field f
GlueFields(f, g) ==
    SubSeq(f, 1, Len(f) - 1) \o <<f[Len(f)] \o g[1]>> \o Tail(g)

\* fp.write of the fields joined by tabs, with no end of line: the text
\* continues the last line of the file
write(fp, fields) ==
    IF fp = <<>> THEN <<fields>>
    ELSE LET last == fp[Len(fp)]
         IN SubSeq(fp, 1, Len(fp) - 1)
            \o << SubSeq(last, 1, Len(last) - 1)
                  \o <<GlueFields(last[Len(last)], fields[1])>>
                  \o Tail(fields) >>

\* the qid of topic i
QueryIds == <<"q1", "q2", "q3", "q4", "q5">>

\* `qrels` after the loop over the assessments: its last element (the
\* assessments are listed in the order of the topics)
LastQrels(qs) ==
    LET judged == {i \in DOMAIN qs : qs[i].qrels}
    IN CHOOSE i \in judged : \A j \in judged : j <= i

\* lines 597-602: the line of a query that is not skipped
HardNegativeLine(qs, positives, negatives) ==
    << Field(QueryIds[LastQrels(qs)]), Field("positives:"), JoinWords(positives),
       Field("negatives:"), JoinWords(negatives) >>

\* PairwiseSampleDatasetFromTSV.iter: one sample per line, from its fields
\* 0, 2 and 4 (a line of less than 5 fields raises IndexError)
PairwiseSampleIter(fp) ==
    [i \in DOMAIN fp |->
        IF Len(fp[i]) >= 5
        THEN [query |-> fp[i][1], positives |-> fp[i][3], negatives |-> fp[i][5]]
        ELSE [query |-> Field("IndexError"), positives |-> <<>>,
              negatives |-> <<>>]]

\* PairwiseSamplerFromTSV: one record per line, which must have 5 fields
\* (the unpacking raises ValueError otherwise)
PairwiseSamplerIter(fp) ==
    [i \in DOMAIN fp |-> IF Len(fp[i]) = 5 THEN fp[i] ELSE <<Field("ValueError")>>]

\* self.logger.info("Processed %d topics (%d skipped)", len(queries), skipped)
\* there is no such line in _itertopics_batchwise
FinalLog(mode, n, skp) ==
    IF mode = "batched" THEN <<>> ELSE <<n, skp>>

\* the first next() on pairwise_iter() when random.randint picks the topic
\* at index i: randint(0, 0) raises ValueError, for an empty self.topics and
\* in sample() for an empty list of positives or negatives
FirstRecord(topics, i) ==
    IF topics = <<>> THEN "ValueError"
    ELSE IF topics[i][2] = <<>> \/ topics[i][3] = <<>> THEN "ValueError"
    ELSE "record"

\* ------------------------------------------------------------ trainers
MaxSteps == 3        \* steps_per_epoch is drawn from 1..MaxSteps
MaxTrainEpochs == 3  \* max_epochs of the run of a trainer

Trainers == {"pointwise", "distillation"}
\* what torch.isnan / torch.isinf see in the scores of a batch
Scores == {"finite", "nan", "inf", "-inf"}

\* a check that lets infinite scores through
isnan(scores) == scores = "nan"
\* torch.isnan(scores).any() or torch.isinf(scores).any()
isnan_or_isinf(scores) == scores \in {"nan", "inf", "-inf"}

\* train_batch: sys.exit(1) before the loss when the check fires
train_batch(scores) ==
    IF isnan_or_isinf(scores)
    THEN [exit |-> TRUE, loss |-> FALSE]
    ELSE [exit |-> FALSE, loss |-> TRUE]

\* ----------------------------------------------------------- Learner
\* LearnerListenerStatus aggregation over the votes of one epoch
\* a vote other than STOP cancels a STOP
AggregateAllStop(v) == \A i \in DOMAIN v : v[i] = "STOP"
AggregateStop(v) == \E i \in DOMAIN v : v[i] = "STOP"

\* the loop over the listeners left at the first STOP vote
StopSeen(i, v) == i = Len(listeners) + 1 \/ \E j \in DOMAIN v : v[j] = "STOP"
\* the loop over the listeners has called every listener
AllInvoked(i, v) == i = Len(listeners) + 1

\* the learner and its listeners after construction
LearnerInit ==
    /\ listeners \in ListenerLists
    /\ IF Has("validation")
       THEN /\ metrics \in [Metrics -> BOOLEAN]
            /\ warmup \in Warmups
            /\ validation_interval \in Intervals
            /\ early_stop \in 0..MaxEarlyStop
            /\ store_last_checkpoint \in BOOLEAN
       ELSE /\ metrics = [m \in Metrics |-> TRUE]
            /\ warmup = DefaultWarmup
            /\ validation_interval = DefaultValidationInterval
            /\ early_stop = DefaultEarlyStop
            /\ store_last_checkpoint = FALSE
    /\ IF Has("negative")
       THEN sampling_interval \in Intervals
       ELSE sampling_interval = DefaultSamplingInterval
    /\ IF Has("faiss")
       THEN indexing_interval \in Intervals
       ELSE indexing_interval = DefaultIndexingInterval
    /\ pc = "new"
    /\ epoch = 0
    /\ li = 0
    /\ votes = NoVotes
    /\ top = EmptyTop
    /\ info = NoInfo
    /\ bestDir = [m \in Metrics |-> 0]
    /\ lastDir = 0
    /\ vlLast = NotCalled
    /\ seen = [m \in Metrics |-> [v \in Values |-> 0]]
    /\ topU = EmptyTop
    /\ vlLastU = NotCalled
    /\ stoppedAt = 0
    /\ change = FALSE
    /\ sampler_index = 0
    /\ trainIter = FreshIter
    /\ nslLast = NoNslCall
    /\ switches = <<>>
    /\ justResumed = FALSE
    /\ indexFile = 0

\* the iterators as constructed, before any record is drawn
IterStart ==
    /\ itU = NewIterator
    /\ outU = <<>>
    /\ itI = NewIterator
    /\ outI = <<>>
    /\ itSaved = NoState
    /\ restoredAt = -1

\* the iterators left aside while the learner loop is explored
IterIdle == itKind = "triplet" /\ itSeed = 0 /\ IterStart

\* the trainer as constructed, before any batch
TrainStart ==
    /\ tpc = "batches"
    /\ tepoch = 0
    /\ tbatch = 0
    /\ drawn = 0
    /\ losses = 0
    /\ lastScores = "none"
    /\ listenerCalls = 0
    /\ checkpoints = 0

\* the trainer left aside while another component is explored
TrainIdle == trainer = "pointwise" /\ steps_per_epoch = 1 /\ TrainStart

\* a pass before its first query
PassStart ==
    /\ qix = 0
    /\ skipped = 0
    /\ yielded = <<>>
    /\ outcomes = <<>>
    /\ ppc = "running"
    /\ finalLog = <<>>
    /\ hnFile = <<>>

\* no pass is run while another component is explored
PassIdle == passMode = "per_query" /\ queries = <<>> /\ PassStart

\* the in-batch iterator before its first batch
BatchStart ==
    /\ relevances = <<>>
    /\ batch = NoBatch
    /\ nbatch = 0

BatchIdle == batch_size = 1 /\ BatchStart

\* the list of samplers initialized, and the iterator it returns
ListStart ==
    /\ sampler_random = ListInitialize("random")
    /\ current = 0
    /\ listOut = <<>>

ListIdle == rstates = [o \in Objects |-> RandomState(0)] /\ ListStart

\* the last draw of an iterator that has not drawn
NoDraw == [index |-> -1, bound |-> -1, size |-> -1, updated |-> FALSE,
           outcome |-> "none"]

\* a model-based sampler as constructed: no pool attribute, no generator
PoolStart ==
    /\ pool = -1
    /\ npos = -1
    /\ spc = "new"
    /\ updated = FALSE
    /\ lastDraw = NoDraw
    /\ ndraws = 0

PoolIdle == smpKind = "pairwise" /\ require_initialization = TRUE /\ PoolStart

\* the scoring task before its first batch
TeacherStart ==
    /\ tripletFile = <<>>
    /\ scored = <<>>
    /\ teacherBatches = 0

TeacherIdle == source = <<>> /\ teacher_batch_size = 1 /\ TeacherStart

SamplersIdle ==
    /\ IterIdle
    /\ TrainIdle
    /\ PassIdle
    /\ BatchIdle
    /\ ListIdle
    /\ PoolIdle
    /\ TeacherIdle

Init == LearnerInit /\ SamplersIdle

\* experimaestro validates the configuration before the task runs
Validate ==
    /\ pc = "new"
    /\ pc' = IF VL_validate(early_stop, validation_interval)
             THEN "validated" ELSE "rejected"
    /\ UNCHANGED <<smpvars, cfgvars, epoch, li, votes, vlvars, nslvars, justResumed, indexFile>>

\* Learner start: every listener is initialized
Initialize ==
    /\ pc = "validated"
    /\ pc' = "train"
    /\ top' = VL_initialize(info)
    /\ topU' = VL_initialize(info)
    /\ change' = TRUE
    /\ sampler_index' = 0
    /\ trainIter' = FreshIter
    /\ UNCHANGED <<smpvars, cfgvars, epoch, li, votes, info, bestDir, lastDir, vlLast,
                   seen, vlLastU, stoppedAt, nslLast, switches, justResumed,
                   indexFile>>

\* one epoch of batches, then the listeners are called in order
TrainEpoch ==
    /\ pc = "train"
    /\ epoch < MaxEpoch
    /\ epoch' = epoch + 1
    /\ pc' = "listen"
    /\ li' = 1
    /\ votes' = NoVotes
    /\ UNCHANGED <<smpvars, cfgvars, vlvars, nslvars, justResumed, indexFile>>

CallValidation ==
    /\ pc = "listen"
    /\ ListenerAt(li) = "validation"
    /\ \E means \in IF Evaluates(top, epoch) \/ Evaluates(topU, epoch)
                    THEN [Metrics -> MeansDomain] ELSE {NoMeans} :
        LET r == VLCall(top, epoch, means)
            rU == VLCall(topU, epoch, means)
        IN /\ top' = r.top
           /\ info' = IF r.dumped THEN WriteInfo(info, r.before, r.top)
                      ELSE info
           /\ bestDir' = [m \in Metrics |->
                            IF m \in r.copied THEN epoch ELSE bestDir[m]]
           /\ lastDir' = IF r.last THEN epoch ELSE lastDir
           /\ vlLast' = r
           /\ seen' = IF r.evaluated THEN Observe(seen, epoch, means) ELSE seen
           /\ topU' = rU.top
           /\ vlLastU' = rU
           /\ stoppedAt' = IF r.vote = "STOP" /\ stoppedAt = 0
                            THEN epoch ELSE stoppedAt
           /\ IF r.vote = "ERROR"
              THEN pc' = "aborted" /\ UNCHANGED <<li, votes>>
              ELSE /\ pc' = pc
                   /\ li' = li + 1
                   /\ votes' = [votes EXCEPT ![li] = r.vote]
    /\ UNCHANGED <<smpvars, cfgvars, epoch, nslvars, justResumed, indexFile>>

CallNegativeSampler ==
    /\ pc = "listen"
    /\ ListenerAt(li) = "negative"
    /\ LET r == NSLCall(change, sampler_index, epoch)
       IN /\ change' = r.change
          /\ sampler_index' = r.sampler_index
          /\ nslLast' = [called |-> TRUE, set_current |-> r.set_current,
                         update |-> r.update]
          /\ switches' = IF r.set_current = <<>> THEN switches
                         ELSE Append(switches, <<epoch, r.set_current[1]>>)
    /\ li' = li + 1
    /\ votes' = [votes EXCEPT ![li] = "NO_DECISION"]
    /\ UNCHANGED <<smpvars, cfgvars, pc, epoch, vlvars, trainIter, justResumed, indexFile>>

\* an index rebuilt at every epoch
EveryEpoch(ep) == TRUE
\* the test of FaissBuildListener.__call__
IndexingEpoch(ep) == ep % indexing_interval = 0

\* FaissBuildListener.__call__: indexbackedfaiss.update(path) may raise
CallFaissBuild ==
    /\ pc = "listen"
    /\ ListenerAt(li) = "faiss"
    /\ \/ /\ IndexingEpoch(epoch)
          /\ \E ok \in BOOLEAN :
                IF ok
                THEN /\ indexFile' = epoch
                     /\ li' = li + 1
                     /\ votes' = [votes EXCEPT ![li] = "NO_DECISION"]
                     /\ pc' = pc
                ELSE /\ pc' = "aborted"
                     /\ UNCHANGED <<indexFile, li, votes>>
       \/ /\ ~IndexingEpoch(epoch)
          /\ li' = li + 1
          /\ votes' = [votes EXCEPT ![li] = "NO_DECISION"]
          /\ UNCHANGED <<pc, indexFile>>
    /\ UNCHANGED <<smpvars, cfgvars, epoch, vlvars, nslvars, justResumed>>

\* after the last listener: stop, or go on with the next epoch
Aggregate ==
    /\ pc = "listen"
    /\ AllInvoked(li, votes)
    /\ pc' = IF AggregateStop(votes) THEN "stopping" ELSE "train"
    /\ vlLast' = NotCalled
    /\ vlLastU' = NotCalled
    /\ nslLast' = NoNslCall
    /\ justResumed' = FALSE
    /\ UNCHANGED <<smpvars, cfgvars, epoch, li, votes, top, info, bestDir, lastDir,
                   seen, topU, stoppedAt, change, sampler_index, trainIter,
                   switches, indexFile>>

Exhaust ==
    /\ pc = "train"
    /\ epoch = MaxEpoch
    /\ pc' = "exhausted"
    /\ UNCHANGED <<smpvars, cfgvars, epoch, li, votes, vlvars, nslvars, justResumed, indexFile>>

\* the process is interrupted after a completed epoch (or has aborted) and
\* the task is run again: the listeners are initialized anew
Resume ==
    /\ pc \in {"train", "aborted"}
    /\ epoch >= 1
    /\ pc' = "train"
    /\ justResumed' = TRUE
    /\ top' = VL_initialize(info)
    /\ change' = TRUE
    /\ sampler_index' = 0
    /\ trainIter' = FreshIter
    /\ votes' = NoVotes
    /\ vlLast' = NotCalled
    /\ vlLastU' = NotCalled
    /\ nslLast' = NoNslCall
    /\ UNCHANGED <<smpvars, cfgvars, epoch, li, info, bestDir, lastDir, seen, topU,
                   stoppedAt, switches, indexFile>>

Next ==
    \/ Validate
    \/ Initialize
    \/ TrainEpoch
    \/ CallValidation
    \/ CallNegativeSampler
    \/ CallFaissBuild
    \/ Aggregate
    \/ Exhaust
    \/ Resume

Spec == Init /\ [][Next]_vars

\* ------------------------- specification of the serializable iterators
\* the learner left aside, in its default configuration
LearnerIdle ==
    /\ LearnerInit
    /\ listeners = <<"validation">>
    /\ metrics = [m \in Metrics |-> TRUE]
    /\ warmup = DefaultWarmup
    /\ validation_interval = DefaultValidationInterval
    /\ early_stop = DefaultEarlyStop
    /\ store_last_checkpoint = FALSE

InitIter ==
    /\ LearnerIdle
    /\ TrainIdle
    /\ PassIdle
    /\ BatchIdle
    /\ ListIdle
    /\ PoolIdle
    /\ TeacherIdle
    /\ itKind \in Kinds
    /\ itSeed \in Seeds
    /\ IterStart

\* the trainer pulls one record; the same pull is made on the iterator
\* that is never interrupted
IterNext ==
    /\ Len(outI) < MaxDraws
    /\ HasNext(itKind, itU)
    /\ HasNext(itKind, itI)
    /\ LET u == Produce(itKind, itU)
           i == Produce(itKind, itI)
       IN /\ itU' = u.it
          /\ outU' = Append(outU, u.record)
          /\ itI' = i.it
          /\ outI' = Append(outI, i.record)
    /\ UNCHANGED <<besideIter, itKind, itSeed, itSaved, restoredAt>>

\* the state of the iterator is saved, the process ends, and in the new
\* process the sampler is initialized with the same seed and the saved state
\* is loaded into the iterator it returns
IterRestore ==
    /\ itSaved' = state_dict(itKind, itI)
    /\ itI' = load_state_dict(itKind, NewIterator, itSaved')
    /\ restoredAt' = Len(outI)
    /\ UNCHANGED <<besideIter, itKind, itSeed, itU, outU, outI>>

NextIter ==
    \/ IterNext
    \/ IterRestore

SpecIter == InitIter /\ [][NextIter]_vars

TypeOK ==
    /\ pc \in {"new", "rejected", "validated", "train", "listen",
               "stopping", "exhausted", "aborted"}
    /\ epoch \in 0..MaxEpoch
    /\ DOMAIN top \in {{}, Metrics}

Started == pc \notin {"new", "rejected", "validated"}

\* ------------------ specification of the listener with a damaged info.json
\* the three listeners together, the two without a vote called every epoch
InitCold ==
    /\ LearnerInit
    /\ listeners = <<"validation", "negative", "faiss">>
    /\ store_last_checkpoint = FALSE
    /\ sampling_interval = 1
    /\ indexing_interval = 1
    /\ SamplersIdle

\* between two processes info.json is removed, loses its read permission, or
\* is left truncated
DamageInfo ==
    /\ pc \in {"train", "aborted"}
    /\ info.exists
    /\ info.fault = "none"
    /\ \/ info' = NoInfo
       \/ \E f \in Faults : info' = [info EXCEPT !.fault = f]
    /\ UNCHANGED <<smpvars, cfgvars, pc, epoch, li, votes, top, bestDir, lastDir,
                   vlLast, seen, topU, vlLastU, stoppedAt, nslvars, justResumed,
                   indexFile>>

NextCold ==
    \/ Validate
    \/ Initialize
    \/ TrainEpoch
    \/ CallValidation
    \/ CallNegativeSampler
    \/ CallFaissBuild
    \/ Aggregate
    \/ Exhaust
    \/ Resume
    \/ DamageInfo

SpecCold == InitCold /\ [][NextCold]_vars

\* --------- specification of the listener interrupted inside a validation
\* self.metrics.items(): the metrics in the order of the dictionary
MetricOrder == <<"map", "ndcg">>

\* the process ends inside the loop over the metrics, after the copy made
\* for the k-th metric: the copies of lines 156-161 are on disk, the rewrite
\* of info.json (lines 167-169) has not happened
CrashInValidation ==
    /\ pc = "listen"
    /\ ListenerAt(li) = "validation"
    /\ Evaluates(top, epoch)
    /\ \E means \in [Metrics -> MeansDomain], k \in DOMAIN MetricOrder :
          bestDir' = [m \in Metrics |->
                        IF /\ m \in Copied(top, epoch, means)
                           /\ \E j \in 1..k : MetricOrder[j] = m
                        THEN epoch ELSE bestDir[m]]
    /\ pc' = "aborted"
    /\ UNCHANGED <<smpvars, cfgvars, epoch, li, votes, top, info, lastDir, vlLast,
                   seen, topU, vlLastU, stoppedAt, nslvars, justResumed,
                   indexFile>>

NextCrash ==
    \/ Validate
    \/ Initialize
    \/ TrainEpoch
    \/ CallValidation
    \/ CallNegativeSampler
    \/ CallFaissBuild
    \/ Aggregate
    \/ Exhaust
    \/ Resume
    \/ CrashInValidation

SpecCrash == InitCold /\ [][NextCrash]_vars

\* ------------------------------- specification of the batches of a trainer
InitTrain ==
    /\ LearnerIdle
    /\ IterIdle
    /\ PassIdle
    /\ BatchIdle
    /\ ListIdle
    /\ PoolIdle
    /\ TeacherIdle
    /\ trainer \in Trainers
    /\ steps_per_epoch \in 1..MaxSteps
    /\ TrainStart

\* one batch: drawn from the sampler, scored by the ranker, and given to
\* train_batch, which leaves the process when a score is NaN or infinite
TrainBatch ==
    /\ tpc = "batches"
    /\ \E scores \in Scores :
         LET r == train_batch(scores)
         IN /\ drawn' = drawn + 1
            /\ lastScores' = scores
            /\ losses' = IF r.loss THEN losses + 1 ELSE losses
            /\ tbatch' = IF r.exit THEN tbatch ELSE tbatch + 1
            /\ tpc' = IF r.exit THEN "exited"
                      ELSE IF tbatch + 1 = steps_per_epoch THEN "listeners"
                      ELSE "batches"
    /\ UNCHANGED <<besideTrain, trainer, steps_per_epoch, tepoch,
                   listenerCalls, checkpoints>>

\* the end of an epoch: the listeners are invoked and a checkpoint is written
EpochEnd ==
    /\ tpc = "listeners"
    /\ tepoch' = tepoch + 1
    /\ tbatch' = 0
    /\ listenerCalls' = listenerCalls + 1
    /\ checkpoints' = checkpoints + 1
    /\ tpc' = IF tepoch + 1 = MaxTrainEpochs THEN "done" ELSE "batches"
    /\ UNCHANGED <<besideTrain, trainer, steps_per_epoch, drawn, losses,
                   lastScores>>

NextTrain ==
    \/ TrainBatch
    \/ EpochEnd

SpecTrain == InitTrain /\ [][NextTrain]_vars

\* -------------------------- specification of the passes over the topics
InitPass ==
    /\ LearnerIdle
    /\ IterIdle
    /\ TrainIdle
    /\ BatchIdle
    /\ ListIdle
    /\ PoolIdle
    /\ TeacherIdle
    /\ passMode \in PassModes
    /\ queries \in UNION {[1..n -> QueryCases] : n \in 1..MaxQueries}
    /\ PassStart

\* the next query of the loop
PassQuery ==
    /\ ppc = "running"
    /\ qix < Len(queries)
    /\ LET r == Handle(passMode, queries[qix + 1])
       IN /\ qix' = qix + 1
          /\ outcomes' = Append(outcomes, r.kind)
          /\ skipped' = IF r.kind = "skip" THEN skipped + 1 ELSE skipped
          /\ yielded' = IF r.kind = "yield"
                        THEN Append(yielded, <<qix + 1, r.positives, r.negatives>>)
                        ELSE yielded
          /\ ppc' = IF r.kind = "error" THEN "failed" ELSE "running"
          /\ hnFile' = IF passMode = "hard_negative" /\ r.kind = "yield"
                       THEN write(hnFile,
                                  HardNegativeLine(queries, r.positives, r.negatives))
                       ELSE hnFile
    /\ UNCHANGED <<besidePass, passMode, queries, finalLog>>

\* the loop is over
PassEnd ==
    /\ ppc = "running"
    /\ qix = Len(queries)
    /\ ppc' = "done"
    /\ finalLog' = FinalLog(passMode, Len(queries), skipped)
    /\ UNCHANGED <<besidePass, passMode, queries, qix, skipped, yielded, outcomes,
                   hnFile>>

\* initialize has returned with self.topics = the topics yielded by the pass,
\* and the trainer pulls the first record
PassDraw ==
    /\ ppc = "done"
    /\ passMode \in {"per_query", "batched"}
    /\ \E i \in DOMAIN yielded \cup {1} :
          ppc' = IF FirstRecord(yielded, i) = "record"
                 THEN "drawn" ELSE "draw_failed"
    /\ UNCHANGED <<besidePass, passMode, queries, qix, skipped, yielded,
                   outcomes, finalLog, hnFile>>

NextPass ==
    \/ PassQuery
    \/ PassEnd
    \/ PassDraw

SpecPass == InitPass /\ [][NextPass]_vars

\* ------------------------ specification of the in-batch negatives iterator
InitBatch ==
    /\ LearnerIdle
    /\ TrainIdle
    /\ PassIdle
    /\ ListIdle
    /\ PoolIdle
    /\ TeacherIdle
    /\ itKind \in PairwiseKinds
    /\ itSeed \in Seeds
    /\ IterStart
    /\ batch_size \in 1..MaxBatch
    /\ BatchStart

\* next() on the iterator returned by batchwise_iter(batch_size): the matrix
\* is computed when the generator starts, then one batch is built per turn
BatchNext ==
    /\ nbatch < MaxBatches
    /\ LET r == zip(batch_size, itKind, itI)
       IN /\ relevances' = IF nbatch = 0
                            THEN cat(eye(batch_size), zeros(batch_size, batch_size))
                            ELSE relevances
          /\ batch' = ProductRecords(r.records, relevances')
          /\ itI' = r.it
          /\ nbatch' = nbatch + 1
    /\ UNCHANGED <<besideBatch, batch_size>>

NextBatch == BatchNext

SpecBatch == InitBatch /\ [][NextBatch]_vars

\* --------------------------- specification of the list of pairwise samplers
InitList ==
    /\ LearnerIdle
    /\ IterIdle
    /\ TrainIdle
    /\ PassIdle
    /\ BatchIdle
    /\ PoolIdle
    /\ TeacherIdle
    /\ rstates \in {[o \in Objects |-> RandomState(seed)] : seed \in Seeds}
    /\ ListStart

\* next() on the ListwiseSerializableIterator: the current iterator draws
\* from the RandomState of its sampler
ListNext ==
    /\ Len(listOut) < MaxDraws
    /\ LET o == sampler_random[current]
           r == ModelBasedNext(rstates[o])
       IN /\ rstates' = [rstates EXCEPT ![o] = r.state]
          /\ listOut' = Append(listOut, <<current, r.record>>)
    /\ UNCHANGED <<besideList, sampler_random, current>>

\* set_current(i)
ListSetCurrent ==
    /\ \E i \in SubSamplers \ {current} : current' = set_current(current, i)
    /\ UNCHANGED <<besideList, rstates, sampler_random, listOut>>

NextList ==
    \/ ListNext
    \/ ListSetCurrent

SpecList == InitList /\ [][NextList]_vars

\* ------------------ specification of the pool of a model-based sampler
MaxPool == 3         \* records of a pool

ModelBasedKinds == {"pointwise", "pairwise"}

\* the indices numpy's randint(0, n) can return
Indices(n) == 0..(n - 1)

InitPool ==
    /\ LearnerIdle
    /\ IterIdle
    /\ TrainIdle
    /\ PassIdle
    /\ BatchIdle
    /\ ListIdle
    /\ TeacherIdle
    /\ smpKind \in ModelBasedKinds
    /\ require_initialization \in BOOLEAN
    /\ PoolStart

\* initialize(random): the pool is read when require_initialization is set;
\* the pointwise sampler then logs the sizes of its two lists, which are
\* attributes that nothing has assigned when the pool was not read
PoolInitialize ==
    /\ spc = "new"
    /\ IF require_initialization
       THEN \E n \in 1..MaxPool : pool' = n /\ spc' = "ready"
       ELSE /\ pool' = pool
            /\ spc' = IF smpKind = "pointwise" THEN "init_failed" ELSE "ready"
    /\ UNCHANGED <<besidePool, smpKind, require_initialization, npos, updated,
                   lastDraw, ndraws>>

\* update(): the pool is read again
PoolUpdate ==
    /\ spc = "ready"
    /\ \E n \in 1..MaxPool : pool' = n
    /\ updated' = TRUE
    /\ UNCHANGED <<besidePool, smpKind, require_initialization, npos, spc,
                   lastDraw, ndraws>>

\* the bound of the index of a draw: the pointwise generator computes the
\* sizes once, before its loop; the pairwise generator at every turn
DrawBound == IF smpKind = "pointwise" /\ npos # -1 THEN npos ELSE pool

\* next() on the iterator
PoolDraw ==
    /\ spc = "ready"
    /\ ndraws < MaxDraws
    /\ ndraws' = ndraws + 1
    /\ IF pool = -1
       THEN /\ lastDraw' = [NoDraw EXCEPT !.outcome = "AttributeError"]
            /\ spc' = "draw_failed"
            /\ npos' = npos
       ELSE \E i \in Indices(DrawBound) :
               /\ lastDraw' = [index |-> i, bound |-> DrawBound, size |-> pool,
                               updated |-> updated,
                               outcome |-> IF i < pool THEN "record"
                                           ELSE "IndexError"]
               /\ spc' = IF i < pool THEN "ready" ELSE "draw_failed"
               /\ npos' = IF smpKind = "pointwise" THEN DrawBound ELSE npos
    /\ UNCHANGED <<besidePool, smpKind, require_initialization, pool, updated>>

NextPool ==
    \/ PoolInitialize
    \/ PoolUpdate
    \/ PoolDraw

SpecPool == InitPool /\ [][NextPool]_vars

\* ------------------- specification of the teacher scoring of the triplets
MaxTriplets == 3     \* triplets of the source sampler

TripletCases == { <<"q1", "d1", "d3">>, <<"q1", "d2", "d3">>,
                  <<"q2", "d1", "d3">>, <<"q2", "d2", "d3">> }

\* what the teacher model returns for a document, as it is printed
ScoreOf(d) == CASE d = "d1" -> "0.9" [] d = "d2" -> "0.8" [] OTHER -> "0.1"

\* lines 670-673: the text written for one record of the batch
TripletLine(rec) ==
    << Field(rec[1]), Field(rec[2]), Field(ScoreOf(rec[2])),
       Field(rec[3]), Field(ScoreOf(rec[3])) >>

\* zip(range(batch_size), self.iter_pairs_with_text()): the call of
\* iter_pairs_with_text creates a new iterator over the source
TakeBatch(src, n) == SubSeq(src, 1, IF n < Len(src) THEN n ELSE Len(src))

RECURSIVE WriteAll(_, _)
WriteAll(fp, recs) ==
    IF recs = <<>> THEN fp
    ELSE WriteAll(write(fp, TripletLine(Head(recs))), Tail(recs))

InitTeacher ==
    /\ LearnerIdle
    /\ IterIdle
    /\ TrainIdle
    /\ PassIdle
    /\ BatchIdle
    /\ ListIdle
    /\ PoolIdle
    /\ source \in UNION {[1..n -> TripletCases] : n \in 1..MaxTriplets}
    /\ teacher_batch_size \in 1..MaxBatch
    /\ TeacherStart

\* one turn of the loop of execute over iter_batches(), whose `while True`
\* has no exit: the batch is built, scored and written
TeacherBatch ==
    /\ teacherBatches < MaxBatches
    /\ LET recs == TakeBatch(source, teacher_batch_size)
       IN /\ tripletFile' = WriteAll(tripletFile, recs)
          /\ scored' = scored \o [k \in DOMAIN recs |-> <<k, recs[k]>>]
    /\ teacherBatches' = teacherBatches + 1
    /\ UNCHANGED <<besideTeacher, source, teacher_batch_size>>

NextTeacher == TeacherBatch

SpecTeacher == InitTeacher /\ [][NextTeacher]_vars

\* ================================================================ claims

\* the early-stop rule as a total function of a best table and an epoch
RuleVote(t, e) ==
    IF /\ early_stop > 0
       /\ KeptEpochs(t) # {}
       /\ e - SetMax(KeptEpochs(t)) >= early_stop
    THEN "STOP" ELSE "DONT_STOP"

\* C1: every evaluation of should_stop made by a call answers STOP iff
\* early_stop > 0 and epoch - max(best epoch of the kept metrics) >=
\* early_stop, and DONT_STOP otherwise: the check made on entry for the
\* previous epoch, and the check made on exit for the current epoch.
C1_ShouldStopRule ==
    vlLast.pre # "NONE" =>
        /\ vlLast.pre = RuleVote(vlLast.before, epoch - 1)
        /\ vlLast.pre = "DONT_STOP" => vlLast.vote = RuleVote(vlLast.top, epoch)

\* C2: the loop stops after an epoch iff some listener voted STOP; the
\* listeners without an opinion vote NO_DECISION, which neither stops the
\* loop nor keeps it running.
C2_Aggregation ==
    /\ pc = "stopping" => \E i \in DOMAIN votes : votes[i] = "STOP"
    /\ (pc = "train" /\ \A i \in DOMAIN votes : votes[i] # "NONE")
          => \A i \in DOMAIN votes : votes[i] # "STOP"
    /\ \A i \in DOMAIN votes :
          listeners[i] # "validation" => votes[i] \in {"NONE", "NO_DECISION"}

C2_Witness ==
    /\ pc = "stopping"
    /\ votes = <<"STOP", "NO_DECISION", "NO_DECISION">>

\* C3: the entry of a metric holds the greatest value observed so far at
\* epochs >= warmup and the first epoch at which that value was observed;
\* a metric never observed has no entry.
ObservedValues(m) == {v \in Values : seen[m][v] # 0}

C3_BestTable ==
    Started =>
      \A m \in Metrics :
        IF ObservedValues(m) = {}
        THEN m \notin DOMAIN top
        ELSE /\ m \in DOMAIN top
             /\ top[m].value = SetMax(ObservedValues(m))
             /\ top[m].epoch = seen[m][SetMax(ObservedValues(m))]

\* the best was recorded, and a lower value observed later left it there
C3_Witness ==
    /\ "map" \in DOMAIN top
    /\ top["map"].value = 2
    /\ seen["map"][1] > top["map"].epoch

\* C4: bestpath/<metric> changes in a step exactly when the step is a
\* validation pass, the metric is flagged keep, the epoch has reached warmup
\* and the value is a first record or a strict improvement; it then holds the
\* model of the current epoch.
C4_BestCheckpointWrites ==
    [][\A m \in Metrics :
         /\ (bestDir'[m] # bestDir[m]) <=>
              (/\ pc = "listen"
               /\ ListenerAt(li) = "validation"
               /\ vlLast'.evaluated
               /\ metrics[m]
               /\ epoch >= warmup
               /\ (m \notin DOMAIN top \/ vlLast'.means[m] > top[m].value))
         /\ (bestDir'[m] # bestDir[m]) => (bestDir'[m] = epoch)]_vars

\* a pass improved both metrics and copied the model for the kept one only
C4_Witness ==
    /\ vlLast.evaluated
    /\ DOMAIN top = Metrics
    /\ metrics["map"] /\ ~metrics["ndcg"]
    /\ top["map"].epoch = epoch /\ top["ndcg"].epoch = epoch
    /\ bestDir["map"] = epoch /\ bestDir["ndcg"] = 0

\* C5: a call at an epoch that is no multiple of validation_interval leaves
\* the best table, info.json, the best checkpoints and the last checkpoint
\* unchanged, and returns the early-stop decision for the recorded bests.
C5_NonValidationEpoch ==
    [][(/\ pc = "listen"
        /\ ListenerAt(li) = "validation"
        /\ epoch % validation_interval # 0)
       => /\ top' = top
          /\ info' = info
          /\ bestDir' = bestDir
          /\ lastDir' = lastDir
          /\ ~vlLast'.evaluated
          /\ vlLast'.vote = RuleVote(top, epoch)]_vars

\* C6: the listener that was re-initialized from info.json has the best
\* table, the checkpoint writes and the vote of the listener that was never
\* interrupted.
C6_ResumeEquivalence ==
    Started =>
        /\ top = topU
        /\ vlLast.vote = vlLastU.vote
        /\ vlLast.copied = vlLastU.copied
        /\ vlLast.evaluated = vlLastU.evaluated

\* the first call after a resume improves on the restored best table
C6_Witness ==
    /\ justResumed
    /\ vlLast.evaluated
    /\ vlLast.before # EmptyTop
    /\ vlLast.top # vlLast.before
    /\ vlLast.copied # {}

\* C7: info.json read back is the in-memory best table whenever the listener
\* is between two calls, and a validation pass leaves the file written.
Persisted == IF info.exists THEN JsonLoad(info.text) ELSE EmptyTop

C7_PersistedRecord ==
    Started =>
        /\ Persisted = top
        /\ vlLast.evaluated => info.exists

\* a pass without improvement, after which the file holds the table
C7_Witness ==
    /\ vlLast.evaluated
    /\ vlLast.top = vlLast.before
    /\ top # EmptyTop
    /\ info.exists

\* C8: an early_stop that is no multiple of validation_interval is rejected
\* before the listener is initialized or any epoch runs; early_stop = 0 is
\* never rejected.
C8_ConstructionCheck ==
    /\ (early_stop % validation_interval # 0) => pc \in {"new", "rejected"}
    /\ (early_stop = 0) => pc # "rejected"
    /\ (pc = "rejected") => (epoch = 0 /\ top = EmptyTop /\ ~info.exists)

C8_Witness ==
    /\ pc = "rejected"
    /\ early_stop = 1
    /\ validation_interval = 2

\* C9: over the whole run set_current is called once, at the first epoch
\* that is a multiple of sampling_interval, with index 1, and never again.
C9_SwitchOnce ==
    /\ Len(switches) <= 1
    /\ \A i \in DOMAIN switches : switches[i] = <<sampling_interval, 1>>

\* C10: the first trigger only switches; a later trigger calls update()
\* once, on the sub-sampler that serves the stream; other epochs do nothing.
C10_UpdateProtocol ==
    nslLast.called =>
        IF epoch % sampling_interval # 0
        THEN nslLast.set_current = <<>> /\ nslLast.update = <<>>
        ELSE IF epoch = sampling_interval
        THEN nslLast.set_current = <<1>> /\ nslLast.update = <<>>
        ELSE nslLast.set_current = <<>> /\ nslLast.update = <<trainIter>>

\* C11: once the listener has triggered (change is FALSE), the batches of
\* every following epoch are pulled from an iterator whose current
\* sub-sampler is sub-sampler 1: the switch reached the iterator the trainer
\* obtained at initialization.
C11_StreamRedirection ==
    [][(pc = "train" /\ pc' = "listen" /\ ~change) => trainIter = 1]_vars

\* C12: a random-draw iterator whose random state was saved, and loaded into
\* the iterator of a new process with the same seed and pool, has produced
\* the records of the iterator that was never interrupted, and goes on from
\* the same random state.
C12_RandomDrawDeterminism ==
    itKind \in RandomDrawKinds => (outI = outU /\ itI.random = itU.random)

\* two records, a restore, two more records, not all equal
C12_Witness ==
    /\ itKind = "model_based"
    /\ restoredAt = 2
    /\ Len(outI) = 4
    /\ outI[3] # outI[1]
    /\ itI.random # RandomState(itSeed)

C14_NanAbort ==
    [][/\ (drawn' # drawn /\ lastScores' # "finite") =>
            (/\ tpc' = "exited"
             /\ losses' = losses
             /\ listenerCalls' = listenerCalls
             /\ checkpoints' = checkpoints)
       /\ tpc = "exited" => UNCHANGED trainvars]_vars

\* an infinite score at the third batch of the second epoch
C14_Witness ==
    /\ tpc = "exited"
    /\ lastScores = "inf"
    /\ tepoch = 1
    /\ drawn = steps_per_epoch + 3
    /\ losses = drawn - 1
    /\ listenerCalls = 1

\* C15: the listeners are invoked only after Initialize and after the
\* batches of an epoch, one at a time in the order of the listener list; a
\* listener is invoked once per epoch, when all the listeners before it have
\* voted and none after it has; the aggregation rule is applied only when
\* every listener has voted, also when an earlier listener voted STOP.
C15_EpochProtocol ==
    [][/\ (pc' = "listen" /\ pc # "listen") =>
            (pc = "train" /\ epoch' = epoch + 1 /\ li' = 1 /\ votes' = NoVotes)
       /\ (pc = "listen" /\ votes' # votes) =>
            (/\ li' = li + 1
             /\ li \in DOMAIN listeners
             /\ epoch' = epoch
             /\ \A j \in DOMAIN votes :
                   /\ j < li => (votes[j] # "NONE" /\ votes'[j] = votes[j])
                   /\ j = li => (votes[j] = "NONE" /\ votes'[j] # "NONE")
                   /\ j > li => (votes[j] = "NONE" /\ votes'[j] = "NONE"))
       /\ (pc = "listen" /\ pc' \in {"train", "stopping"}) =>
            (/\ \A j \in DOMAIN votes : votes[j] # "NONE"
             /\ votes' = votes)
       /\ (pc' = "train" /\ pc = "validated") => (epoch = 0 /\ li = 0)
       /\ pc' # "validated" \/ pc \in {"new", "validated"}]_vars

\* the two listeners after the ValidationListener were invoked after its
\* STOP vote, and the rule has not been applied yet
C15_Witness ==
    /\ pc = "listen"
    /\ Len(listeners) = 3
    /\ li = 4
    /\ votes[1] = "STOP"
    /\ votes[2] = "NO_DECISION" /\ votes[3] = "NO_DECISION"

\* C16: a call of the FaissBuildListener at an epoch that is a multiple of
\* indexing_interval either rebuilds faiss.dat under the checkpoint of that
\* epoch and votes NO_DECISION, or fails and ends the run without a vote; at
\* any other epoch it votes NO_DECISION and leaves the index alone; nothing
\* else writes the index.
C16_IndexRebuild ==
    [][/\ (pc = "listen" /\ ListenerAt(li) = "faiss") =>
            IF epoch % indexing_interval = 0
            THEN \/ /\ indexFile' = epoch
                    /\ votes' = [votes EXCEPT ![li] = "NO_DECISION"]
                    /\ pc' = "listen"
                 \/ /\ pc' = "aborted"
                    /\ votes' = votes
                    /\ indexFile' = indexFile
            ELSE /\ indexFile' = indexFile
                 /\ votes' = [votes EXCEPT ![li] = "NO_DECISION"]
                 /\ pc' = "listen"
       /\ indexFile' # indexFile =>
            (pc = "listen" /\ ListenerAt(li) = "faiss")]_vars

\* the index of epoch 2 is still there after the call of epoch 3
C16_Witness ==
    /\ pc = "listen"
    /\ Has("faiss")
    /\ indexing_interval = 2
    /\ epoch = 3
    /\ indexFile = 2
    /\ li = Len(listeners) + 1
    /\ votes[Len(listeners)] = "NO_DECISION"

\* info.json is missing, or reading it raises
Unusable(f) == ~f.exists \/ f.fault # "none"

\* C17: a listener initialized (at the start of a process: the step that
\* leaves info.json alone and ends in the training loop) while info.json is missing, unreadable or
\* unparseable starts, without an error, with the empty best table; a
\* listener with the empty table does not vote STOP on entry, keeps the empty
\* table and votes DONT_STOP until it validates, and its first validation at
\* an epoch >= warmup records for every metric the value and the epoch of
\* that validation.
C17_ColdStart ==
    [][/\ (pc \in {"validated", "train", "aborted"} /\ pc' = "train"
           /\ info' = info /\ Unusable(info)) => top' = EmptyTop
       /\ (pc = "listen" /\ ListenerAt(li) = "validation" /\ top = EmptyTop) =>
            /\ vlLast'.pre = "DONT_STOP"
            /\ ~vlLast'.evaluated =>
                  (top' = EmptyTop /\ vlLast'.vote = "DONT_STOP")
            /\ (vlLast'.evaluated /\ epoch < warmup) => top' = EmptyTop
            /\ (vlLast'.evaluated /\ epoch >= warmup) =>
                  \A m \in Metrics :
                     top'[m] = [value |-> vlLast'.means[m], epoch |-> epoch]]_vars

\* a best table was persisted, the file was damaged, the run was resumed
\* with the empty table and the next validation recorded new bests
C17_Witness ==
    /\ justResumed
    /\ vlLast.evaluated
    /\ vlLast.before = EmptyTop
    /\ topU # EmptyTop
    /\ DOMAIN top = Metrics
    /\ top # topU
    /\ epoch >= 2

\* what the claims on the passes say of a topic, read from its data
Range(seq) == {seq[i] : i \in DOMAIN seq}
HasJudgements(q) == q.qrels /\ q.judgements # <<>>
JudgedRelevant(q) == {j[1] : j \in {x \in Range(q.judgements) : x[2] > 0}}
NegativeCandidates(q) == SelectSeq(q.retrieved, LAMBDA d : d \notin JudgedRelevant(q))

\* C18: for every query that was yielded, the positives are the documents
\* judged with a relevance > 0, the negatives are the retrieved documents
\* that are not, in retrieval order, and the two lists share no document.
C18_PositiveNegativeSplit ==
    \A i \in DOMAIN yielded :
        LET q == queries[yielded[i][1]]
            pos == yielded[i][2]
            neg == yielded[i][3]
        IN /\ Range(pos) = JudgedRelevant(q)
           /\ neg = NegativeCandidates(q)
           /\ Range(pos) \cap Range(neg) = {}

\* C19: in the per-query pass and in hard-negative extraction, a query is
\* skipped iff it has no judgements or no judged positive or (extraction
\* only) no negative candidate; the counter is the number of skipped
\* queries; when the pass is over, skipped + yielded = total and the final
\* log reports the total and the counter.
C19_SkipCounting ==
    passMode \in {"per_query", "hard_negative"} =>
        /\ \A i \in DOMAIN outcomes :
              outcomes[i] = "skip" <=>
                 \/ ~HasJudgements(queries[i])
                 \/ JudgedRelevant(queries[i]) = {}
                 \/ /\ passMode = "hard_negative"
                    /\ NegativeCandidates(queries[i]) = <<>>
        /\ skipped = Cardinality({i \in DOMAIN outcomes : outcomes[i] = "skip"})
        /\ ppc = "done" =>
              /\ skipped + Len(yielded) = Len(queries)
              /\ finalLog = <<Len(queries), skipped>>

\* C20: no pass fails on a query that lacks judgements, judged positives or
\* negative candidates: such a query is skipped and the pass goes on.
C20_SkippableNonFatal ==
    /\ ppc # "failed"
    /\ \A i \in DOMAIN outcomes :
          (\/ ~HasJudgements(queries[i])
           \/ JudgedRelevant(queries[i]) = {}
           \/ NegativeCandidates(queries[i]) = <<>>) => outcomes[i] = "skip"

\* C21: the batched pass does for every query what the per-query pass does
\* for it: it yields the same positives and negatives for the queries the
\* per-query pass yields, yields nothing for the queries the per-query pass
\* skips, and does not fail.
C21_ModeEquivalence ==
    passMode = "batched" =>
        /\ ppc # "failed"
        /\ \A i \in DOMAIN outcomes : outcomes[i] = PerQuery(queries[i]).kind
        /\ \A i \in DOMAIN yielded :
              LET r == PerQuery(queries[yielded[i][1]])
              IN r.kind = "yield" /\ yielded[i][2] = r.positives
                                  /\ yielded[i][3] = r.negatives

\* C22: a batch of the in-batch negatives iterator for batch size B has B
\* queries and 2B documents, the B positives in the order of the queries and
\* then the B negatives in that order, and the B x 2B matrix with a single 1
\* per row, at column i in row i; the matrix is the one computed for the
\* first batch.
C22_InBatchNegatives ==
    nbatch > 0 =>
        /\ Len(batch.queries) = batch_size
        /\ Len(batch.documents) = 2 * batch_size
        /\ \A i \in 1..batch_size :
              /\ batch.queries[i] = batch.records[i][1]
              /\ batch.documents[i] = batch.records[i][2]
              /\ batch.documents[batch_size + i] = batch.records[i][3]
        /\ DOMAIN batch.relevances = 1..batch_size
        /\ \A i \in 1..batch_size :
              /\ DOMAIN batch.relevances[i] = 1..(2 * batch_size)
              /\ \A j \in 1..(2 * batch_size) :
                    batch.relevances[i][j] = IF j = i THEN 1 ELSE 0
        /\ batch.relevances = relevances

\* C23: whatever the number of records already drawn, the iterator of a
\* sampler has a next record: it is never exhausted.
C23_InfiniteStream == HasNext(itKind, itI)

\* C28: a draw from one sub-sampler of the list leaves the random stream of
\* every other sub-sampler as it was: the record the other sub-sampler
\* produces next, and the state it goes on from, are the same before and
\* after the draw.
C28_OwnRandomStream ==
    [][Len(listOut') > Len(listOut) =>
          \A k \in SubSamplers \ {current} :
              ModelBasedNext(rstates'[sampler_random[k]])
                  = ModelBasedNext(rstates[sampler_random[k]])]_vars

\* the epoch of the model held by the directory an output names
Held(path) == IF path = <<"last_checkpoint">> THEN lastDir ELSE bestDir[path[2]]
Ended == Has("validation") /\ pc \in {"stopping", "exhausted"}

C25_RollingLast ==
    [][/\ (/\ pc = "listen"
           /\ ListenerAt(li) = "validation"
           /\ vlLast'.evaluated
           /\ store_last_checkpoint) => lastDir' = epoch
       /\ lastDir' # lastDir =>
            (/\ pc = "listen"
             /\ ListenerAt(li) = "validation"
             /\ vlLast'.evaluated
             /\ store_last_checkpoint)
       /\ ~store_last_checkpoint => (lastDir = 0 /\ lastDir' = 0)]_vars

\* a validation pass without improvement has rewritten the last checkpoint
\* and no best checkpoint
C25_Witness ==
    /\ vlLast.evaluated
    /\ store_last_checkpoint
    /\ vlLast.top = vlLast.before
    /\ vlLast.copied = {}
    /\ lastDir = epoch
    /\ \A m \in Metrics : metrics[m] /\ bestDir[m] \in 1..(epoch - 1)

\* C26: the listener evaluates the validation metrics only at epochs that
\* have reached warmup.
C26_Warmup == vlLast.evaluated => epoch >= warmup

\* C27: an empty record pool is found when the sampler is initialized: when
\* initialize returns there is a topic, every topic has a positive and a
\* negative, and no draw fails for want of a record.
C27_EmptyPoolAtInitialize ==
    /\ ppc # "draw_failed"
    /\ (passMode # "hard_negative" /\ ppc \in {"done", "drawn"}) =>
          /\ yielded # <<>>
          /\ \A i \in DOMAIN yielded :
                yielded[i][2] # <<>> /\ yielded[i][3] # <<>>

\* C29: a call of the listener at an epoch later than the epoch of its first
\* STOP vote returns STOP without evaluating, and leaves the best table,
\* info.json, the best checkpoints and the last checkpoint as they were.
C29_StopAbsorbing ==
    [][(/\ pc = "listen"
        /\ ListenerAt(li) = "validation"
        /\ stoppedAt # 0
        /\ epoch > stoppedAt)
       => /\ vlLast'.vote = "STOP"
          /\ ~vlLast'.evaluated
          /\ top' = top
          /\ info' = info
          /\ bestDir' = bestDir
          /\ lastDir' = lastDir]_vars

\* the listener voted STOP, a later listener failed, the run was resumed and
\* the listener, called at the next epoch, voted STOP on entry
C29_Witness ==
    /\ stoppedAt # 0
    /\ epoch = stoppedAt + 1
    /\ vlLast.pre = "STOP"
    /\ vlLast.vote = "STOP"
    /\ justResumed
    /\ DOMAIN top = Metrics

\* C30: the first STOP vote of the listener is given at a multiple of
\* validation_interval, by the check that follows a validation in which no
\* kept metric improved; the check on entry answers STOP only at an epoch
\* later than the first STOP vote; and a call that returns a vote at a
\* multiple of validation_interval without evaluating is a call for which the
\* stop rule held at the previous epoch.
C30_NoPrematureStop ==
    [][(pc = "listen" /\ ListenerAt(li) = "validation") =>
          /\ (vlLast'.vote = "STOP" /\ stoppedAt = 0) =>
                /\ epoch % validation_interval = 0
                /\ vlLast'.pre = "DONT_STOP"
                /\ vlLast'.evaluated
                /\ \A m \in Metrics :
                      metrics[m] => (m \in DOMAIN top /\ top'[m] = top[m])
          /\ vlLast'.pre = "STOP" => (stoppedAt # 0 /\ stoppedAt < epoch)
          /\ (/\ epoch % validation_interval = 0
              /\ ~vlLast'.evaluated
              /\ vlLast'.vote # "ERROR") => RuleVote(top, epoch - 1) = "STOP"]_vars

\* the first STOP vote: bests recorded at epoch 2, the validation of epoch 4
\* improved no kept metric
C30_Witness ==
    /\ stoppedAt = epoch
    /\ epoch = 4
    /\ early_stop = 2
    /\ validation_interval = 2
    /\ vlLast.evaluated
    /\ vlLast.pre = "DONT_STOP"
    /\ vlLast.vote = "STOP"
    /\ vlLast.top = vlLast.before

\* C31: whenever the process can be interrupted, the model stored in
\* bestpath/M for a kept metric M is the model of the epoch that info.json
\* records for M (no model when it records nothing for M).
C31_CrashConsistency ==
    Started =>
        \A m \in Metrics :
            metrics[m] =>
                bestDir[m] = IF m \in DOMAIN Persisted THEN Persisted[m].epoch
                             ELSE 0

\* C32: no evaluation of should_stop fails: the check on entry and the check
\* on exit of every call answer STOP or DONT_STOP.
C32_ShouldStopTotal ==
    /\ vlLast.pre \in {"NONE", "STOP", "DONT_STOP"}
    /\ vlLast.vote \in {"NONE", "STOP", "DONT_STOP"}

\* C33: the best table is empty or has an entry for exactly the configured
\* metrics, and update_metrics does not fail: it adds nothing for the empty
\* table and the recorded best value of every configured metric otherwise.
C33_TableShape ==
    /\ DOMAIN top \in {{}, Metrics}
    /\ "KeyError" \notin DOMAIN update_metrics(top)
    /\ top # EmptyTop =>
          /\ DOMAIN update_metrics(top) = Metrics
          /\ \A m \in Metrics : update_metrics(top)[m] = top[m].value

\* the table was read back from info.json by a resumed run and holds the two
\* metrics, of which one is not kept
C33_Witness ==
    /\ justResumed
    /\ pc = "train"
    /\ DOMAIN top = Metrics
    /\ metrics["map"] /\ ~metrics["ndcg"]
    /\ update_metrics(top)["ndcg"] = 2

\* C34: once the first switch has happened, a call of the listener (also of
\* the listener re-initialized by a resumed run) does not switch again, and
\* at a trigger it calls update() once, on the sub-sampler that serves the
\* stream.
C34_RestartSafety ==
    [][(/\ pc = "listen"
        /\ ListenerAt(li) = "negative"
        /\ switches # <<>>)
       => /\ nslLast'.set_current = <<>>
          /\ epoch % sampling_interval = 0 => nslLast'.update = <<trainIter>>
          /\ switches' = switches]_vars

\* C35: once update() has replaced the pool, every draw of an iterator picks
\* its index within the bounds of the new pool and over the whole new pool
\* (the bound of the draw is the size of the pool at the draw), for the
\* pointwise and the pairwise model-based sampler
C35_RefreshedPool ==
    (lastDraw # NoDraw /\ lastDraw.updated) =>
        /\ lastDraw.outcome = "record"
        /\ lastDraw.bound = lastDraw.size

\* C36: a model-based sampler with require_initialization = false is
\* initialized without building its pool, and no record is drawn from it
\* before update() has been called
C36_NoDrawBeforePool ==
    ~require_initialization =>
        /\ spc # "init_failed"
        /\ lastDraw.outcome = "record" => lastDraw.updated

\* C37: the hard-negative export writes one line per query that is not
\* skipped, with the id of that query, its positives and its negatives, and
\* PairwiseSampleDatasetFromTSV.iter reads back one sample per such query
\* with the same id, positives and negatives, in the same order
C37_HardNegativeRoundTrip ==
    (passMode = "hard_negative" /\ ppc = "done") =>
        PairwiseSampleIter(hnFile) =
            [i \in DOMAIN yielded |->
                [query |-> Field(QueryIds[yielded[i][1]]),
                 positives |-> JoinWords(yielded[i][2]),
                 negatives |-> JoinWords(yielded[i][3])]]

\* C38: the teacher scoring writes one record of five values per scored
\* triplet, and PairwiseSamplerFromTSV reads back one record per written
\* triplet with the same five values, in the same order
C38_TripletRoundTrip ==
    PairwiseSamplerIter(tripletFile) =
        [i \in DOMAIN scored |-> TripletLine(scored[i][2])]

\* C39: successive batches of the teacher scoring continue where the
\* previous batch ended, and no triplet of the source is scored and written
\* more than once
C39_EachTripletOnce ==
    /\ \A i \in DOMAIN scored : scored[i][1] = i
    /\ \A p \in DOMAIN source :
          Cardinality({i \in DOMAIN scored : scored[i][1] = p}) <= 1

====
